---- MODULE Spec2Model ----
(***************************************************************************)
(* Model of src/lib/Arguments.ts: the expectation normalizer               *)
(* (#createExpectations) and the resolution engine (getRaw, get,           *)
(* shouldHelp, setDescription, setVersion, getHelpMessage,                 *)
(* triggerHelpException, createValueException, isArgumentException).       *)
(*                                                                         *)
(* Strings are sequences of one-character strings, so that trim, split and *)
(* the version regular expression are computed as the code computes them.  *)
(* A JavaScript value is a record [t |-> typeof-like tag, v |-> payload],  *)
(* the payload being the characters of the value's literal.                *)
(***************************************************************************)
EXTENDS Naturals, Sequences, FiniteSets

VARIABLES
    decls,         \* the constructor's arguments (ExpectationType[])
    expectations,  \* this.#expectations
    raw,           \* this.#raw, the parsed flag map
    desciprion,    \* this.#desciprion (spelled as in the source)
    version,       \* this.#version
    op,            \* the last operation called and its argument
    ret,           \* the value the last operation returned
    thrown,        \* the error the last operation threw, or "none"
    calls,         \* the convertor invocations made by the last operation
    helpText,      \* the text of the last getHelpMessage() still current
    versionArg,    \* the argument of the last setVersion call
    built          \* the state right after construction (registry, raw map)

vars == <<decls, expectations, raw, desciprion, version, op, ret, thrown,
          calls, helpText, versionArg, built>>

-----------------------------------------------------------------------------
(* Bounds of the model.                                                    *)

MaxDecls == 2

MaxNameLen == 4

MaxVersionLen == 4

MaxDescLen == 3

-----------------------------------------------------------------------------
(* JavaScript values.                                                      *)

Undefined == [t |-> "undefined", v |-> <<>>]

Null == [t |-> "null", v |-> <<>>]

Bool(b) == [t |-> "boolean", v |-> IF b THEN <<"true">> ELSE <<"false">>]

Num(digits) == [t |-> "number", v |-> digits]

Str(chars) == [t |-> "string", v |-> chars]

NaN == Num(<<"NaN">>)

Zero == Num(<<"0">>)

One == Num(<<"1">>)

Digits == {"0", "1", "2", "3", "4", "5", "6", "7", "8", "9"}

NL == "\n"

\* \s of the regular expressions and the white space String.prototype.trim removes
IsSpace(c) == c \in {" ", NL, "\t", "\r"}

\* ToBoolean: if (x), !!x
Truthy(x) ==
    ~ \/ x.t \in {"undefined", "null"}
      \/ x = Bool(FALSE)
      \/ x \in {Zero, NaN}
      \/ x = Str(<<>>)

\* a ?? b
Coalesce(a, b) == IF a.t \in {"undefined", "null"} THEN b ELSE a

\* a || b: used only by the mutated variants below
OrElse(a, b) == IF Truthy(a) THEN a ELSE b

-----------------------------------------------------------------------------
(* String helpers of the standard library, as the code uses them.          *)

RECURSIVE TrimStart(_)
TrimStart(s) ==
    IF s # <<>> /\ IsSpace(Head(s)) THEN TrimStart(Tail(s)) ELSE s

RECURSIVE TrimEnd(_)
TrimEnd(s) ==
    IF s # <<>> /\ IsSpace(s[Len(s)])
    THEN TrimEnd(SubSeq(s, 1, Len(s) - 1))
    ELSE s

\* String.prototype.trim
Trim(s) == TrimEnd(TrimStart(s))

\* the end (exclusive) of the run of white space that starts at position q
RECURSIVE SpaceRunEnd(_, _)
SpaceRunEnd(s, q) ==
    IF q <= Len(s) /\ IsSpace(s[q]) THEN SpaceRunEnd(s, q + 1) ELSE q

\* /\s+|\s*,\s*/ matched at position q exactly: the position after the match,
\* or 0 when it does not match there. The first alternative is tried first;
\* the second is reached only when s[q] is no white space, so its leading \s*
\* is empty.
NameSeparatorAt(s, q) ==
    IF IsSpace(s[q]) THEN SpaceRunEnd(s, q)
    ELSE IF s[q] = "," THEN SpaceRunEnd(s, q + 1)
    ELSE 0

\* String.prototype.split(separator) of ECMAScript: p is the start of the
\* piece being collected, q the position the separator is tried at.
RECURSIVE SplitFrom(_, _, _, _)
SplitFrom(s, p, q, acc) ==
    IF q > Len(s) THEN Append(acc, SubSeq(s, p, Len(s)))
    ELSE LET e == NameSeparatorAt(s, q) IN
         IF e = 0 THEN SplitFrom(s, p, q + 1, acc)
         ELSE SplitFrom(s, e, e, Append(acc, SubSeq(s, p, q - 1)))

\* s.split(/\s+|\s*,\s*/g)
SplitNames(s) == SplitFrom(s, 1, 1, <<>>)

\* s.split('\n')
RECURSIVE SplitLinesFrom(_, _, _, _)
SplitLinesFrom(s, p, q, acc) ==
    IF q > Len(s) THEN Append(acc, SubSeq(s, p, Len(s)))
    ELSE IF s[q] = NL
         THEN SplitLinesFrom(s, q + 1, q + 1, Append(acc, SubSeq(s, p, q - 1)))
         ELSE SplitLinesFrom(s, p, q + 1, acc)

SplitLines(s) == SplitLinesFrom(s, 1, 1, <<>>)

-----------------------------------------------------------------------------
(* Convertors. A declaration names its convertor: "undefined" (none given) *)
(* or "Number", the built-in the documentation's scenario uses.            *)

RECURSIVE StripLeadingZeros(_)
StripLeadingZeros(s) ==
    IF Len(s) > 1 /\ Head(s) = "0" THEN StripLeadingZeros(Tail(s)) ELSE s

\* Number(string): StringToNumber on decimal literals
StringToNumber(s) ==
    LET t == Trim(s) IN
    IF t = <<>> THEN Zero
    ELSE IF \A i \in 1..Len(t) : t[i] \in Digits THEN Num(StripLeadingZeros(t))
    ELSE NaN

\* Number(value)
ToNumber(x) ==
    CASE x.t = "undefined" -> NaN
      [] x.t = "null" -> Zero
      [] x.t = "boolean" -> IF x = Bool(TRUE) THEN One ELSE Zero
      [] x.t = "number" -> x
      [] OTHER -> StringToNumber(x.v)

\* expectation.convertor(value)
Apply(convertor, x) == IF convertor = "Number" THEN ToNumber(x) ELSE x

-----------------------------------------------------------------------------
(* The expectation normalizer.                                             *)

\* the names of a declaration name given as a string
StringName(chars) == [kind |-> "string", s |-> chars, a |-> <<>>]

\* the names of a declaration name given as an array of strings
ArrayName(items) == [kind |-> "array", s |-> <<>>, a |-> items]

\* const names = ...
normalizeNames(n) ==
    IF n.kind = "string"
    THEN SplitNames(Trim(n.s))
    ELSE [i \in 1..Len(n.a) |-> Trim(n.a[i])]

\* const description = ...
normalizeDescription(des) ==
    IF Truthy(des) THEN Str(Trim(des.v)) ELSE Null

defaultValueFalsy(d) == OrElse(d, Null)

\* const defaultValue = ex.default ?? null
defaultValue(d) == Coalesce(d, Null)

\* const convertor = ex.convertor ?? ((v) => v)
normalizeConvertor(c) == IF c = "undefined" THEN "identity" ELSE c

createExpectation(ex) ==
    [names |-> normalizeNames(ex.name),
     description |-> normalizeDescription(ex.description),
     default |-> defaultValue(ex.default),
     convertor |-> normalizeConvertor(ex.convertor)]

createExpectations(expectation) ==
    [i \in 1..Len(expectation) |-> createExpectation(expectation[i])]

-----------------------------------------------------------------------------
(* The resolution engine: pure parts.                                      *)

HelpName == <<"h", "e", "l", "p">>

\* this.#raw[name]
rawAt(rawMap, name) == IF name \in DOMAIN rawMap THEN rawMap[name] ELSE Undefined

RECURSIVE rawLookupFrom(_, _, _)
rawLookupFrom(rawMap, names, i) ==
    IF i > Len(names) THEN Undefined
    ELSE IF rawAt(rawMap, names[i]) # Undefined THEN rawAt(rawMap, names[i])
    ELSE rawLookupFrom(rawMap, names, i + 1)

\* getRaw(...names): the loop over the given names
rawLookup(rawMap, names) == rawLookupFrom(rawMap, names, 1)

\* ex.names.find(n => n === name): the element found, or undefined
findName(names, name) ==
    IF \E i \in 1..Len(names) : names[i] = name THEN Str(name) ELSE Undefined

findExpectationLast(exps, name) ==
    LET hits == {i \in 1..Len(exps) : Truthy(findName(exps[i].names, name))} IN
    IF hits = {} THEN 0 ELSE CHOOSE i \in hits : \A j \in hits : j <= i

\* this.#expectations.find(ex => ex.names.find(n => n === name)): the index of
\* the first expectation whose inner find returns a truthy value, 0 when none
findExpectation(exps, name) ==
    LET hits == {i \in 1..Len(exps) : Truthy(findName(exps[i].names, name))} IN
    IF hits = {} THEN 0 ELSE CHOOSE i \in hits : \A j \in hits : i <= j

notFoundErrorAsValueException == "ValueException"

\* throw new Error(`Argument "${name}" is not found.`)
notFoundError == "Error"

selectValueFalsy(value, default) == OrElse(value, default)

\* value ?? expectation.default
selectValue(value, default) == Coalesce(value, default)

\* get(name): what it returns or throws, and the convertor calls it makes
getOutcome(exps, rawMap, name) ==
    LET i == findExpectation(exps, name) IN
    IF i = 0
    THEN [ret |-> Undefined, thrown |-> notFoundError, calls |-> <<>>]
    ELSE LET expectation == exps[i]
             value == rawLookup(rawMap, expectation.names)
             arg == selectValue(value, expectation.default)
         IN  [ret |-> Apply(expectation.convertor, arg),
              thrown |-> "none",
              calls |-> <<[convertor |-> expectation.convertor, arg |-> arg]>>]

presentHelp(rawMap) == Bool(rawLookup(rawMap, <<HelpName>>) # Undefined)

\* !!this.getRaw('help')
truthyHelp(rawMap) == Bool(Truthy(rawLookup(rawMap, <<HelpName>>)))

\* [0-9]+ from position q: the position after the run
RECURSIVE DigitRunEnd(_, _)
DigitRunEnd(s, q) ==
    IF q <= Len(s) /\ s[q] \in Digits THEN DigitRunEnd(s, q + 1) ELSE q

\* (\.[0-9]+)* from position e: the position after the last group
RECURSIVE DottedEnd(_, _)
DottedEnd(s, e) ==
    IF e + 1 <= Len(s) /\ s[e] = "." /\ s[e + 1] \in Digits
    THEN DottedEnd(s, DigitRunEnd(s, e + 1))
    ELSE e

\* /v([0-9]+(\.[0-9]+)*)/ matched at position q exactly: the position after
\* the match, or 0
VersionMatchAt(s, q) ==
    IF s[q] = "v" /\ q + 1 <= Len(s) /\ s[q + 1] \in Digits
    THEN DottedEnd(s, DigitRunEnd(s, q + 1))
    ELSE 0

\* String.prototype.replace with a global regular expression: every match,
\* left to right and not overlapping, is replaced by its group 1
RECURSIVE ReplaceFrom(_, _, _)
ReplaceFrom(s, q, acc) ==
    IF q > Len(s) THEN acc
    ELSE LET e == VersionMatchAt(s, q) IN
         IF e = 0 THEN ReplaceFrom(s, q + 1, Append(acc, s[q]))
         ELSE ReplaceFrom(s, e, acc \o SubSeq(s, q + 1, e - 1))

replaceVersionFirstOnly(s) ==
    LET at == {q \in 1..Len(s) : VersionMatchAt(s, q) # 0} IN
    IF at = {} THEN s
    ELSE LET q == CHOOSE x \in at : \A y \in at : x <= y IN
         SubSeq(s, 1, q - 1) \o SubSeq(s, q + 1, Len(s))

\* version.replace(/v([0-9]+(\.[0-9]+)*)/g, (_match, p1) => p1)
replaceVersion(s) == ReplaceFrom(s, 1, <<>>)

-----------------------------------------------------------------------------
(* Help text. A text is the sequence of its lines (a text of n newlines    *)
(* has n + 1 lines, the empty string is one empty line), so joining texts  *)
(* with '\n' concatenates them. A line records what the template puts on   *)
(* it; the colour helpers and Deno.inspect only decorate those parts.      *)

Line(kind, names, text, val) ==
    [kind |-> kind, names |-> names, text |-> text, val |-> val]

EmptyLine == Line("empty", <<>>, <<>>, Undefined)

\* the empty string
EmptyText == <<EmptyLine>>

RECURSIVE Concat(_)
Concat(texts) ==
    IF texts = <<>> THEN <<>> ELSE Head(texts) \o Concat(Tail(texts))

\* texts.join('\n'), also for '\r\n'
Join(texts) == IF texts = <<>> THEN EmptyText ELSE Concat(texts)

\* lines.push(`  ${names}`)
headerLine(ex) == <<Line("header", ex.names, <<>>, Undefined)>>

\* if (ex.description) ex.description.split('\n').forEach(...)
descriptionLines(ex) ==
    IF Truthy(ex.description)
    THEN LET ds == SplitLines(ex.description.v) IN
         [i \in 1..Len(ds) |-> Line("description", <<>>, ds[i], Undefined)]
    ELSE <<>>

defaultLineTruthy(ex) ==
    IF Truthy(ex.default)
    THEN <<Line("default", <<>>, <<>>, ex.default)>>
    ELSE <<>>

\* if (ex.default !== null) lines.push(...)
defaultLine(ex) ==
    IF ex.default # Null
    THEN <<Line("default", <<>>, <<>>, ex.default)>>
    ELSE <<>>

\* ['', ...lines, ''].join('\n')
helpBlock(ex) ==
    Join(<<EmptyText, headerLine(ex), descriptionLines(ex), defaultLine(ex),
           EmptyText>>)

\* const docs = this.#expectations.map(...).join('\n')
helpDocs(exps) == Join([i \in 1..Len(exps) |-> helpBlock(exps[i])])

\* const description: string[] = ...; description.join('\r\n')
helpDescription(des, ver) ==
    Join((IF Truthy(des) THEN <<<<Line("session", <<>>, des.v, Undefined)>>>>
          ELSE <<>>)
         \o (IF Truthy(ver) THEN <<<<Line("version", <<>>, ver.v, Undefined)>>>>
             ELSE <<>>))

\* [description.join('\r\n'), docs].filter(s => s !== '').join('\n')
helpMessage(exps, des, ver) ==
    LET parts == <<helpDescription(des, ver), helpDocs(exps)>> IN
    Join(SelectSeq(parts, LAMBDA s : s # EmptyText))

\* the classes of Exception.ts, HelpException.ts and ValueException.ts
ExceptionFamily == {"Exception", "HelpException", "ValueException"}

\* error instanceof Exception
isArgumentException(error) == error \in ExceptionFamily

-----------------------------------------------------------------------------
(* The operations. Each records what it was called with (op) and what it   *)
(* gave back (ret, thrown, calls).                                         *)

NoText == <<>>

Called(name, arg) == [name |-> name, arg |-> arg]

fixed == <<decls, expectations, raw, built>>

\* getRaw(...names)
getRaw(names) ==
    /\ op.name # "declared"
    /\ op' = Called("getRaw", names)
    /\ ret' = rawLookup(raw, names)
    /\ thrown' = "none"
    /\ calls' = <<>>
    /\ UNCHANGED <<fixed, desciprion, version, helpText, versionArg>>

getConsuming(name) ==
    LET o == getOutcome(expectations, raw, name) IN
    /\ op.name # "declared"
    /\ op' = Called("get", name)
    /\ ret' = o.ret
    /\ thrown' = o.thrown
    /\ calls' = o.calls
    /\ raw' = [k \in DOMAIN raw |-> IF k = name THEN Undefined ELSE raw[k]]
    /\ UNCHANGED <<decls, expectations, built, desciprion, version, helpText,
                   versionArg>>

\* get(name)
get(name) ==
    LET o == getOutcome(expectations, raw, name) IN
    /\ op.name # "declared"
    /\ op' = Called("get", name)
    /\ ret' = o.ret
    /\ thrown' = o.thrown
    /\ calls' = o.calls
    /\ UNCHANGED <<fixed, desciprion, version, helpText, versionArg>>

\* shouldHelp()
shouldHelp ==
    /\ op.name # "declared"
    /\ op' = Called("shouldHelp", <<>>)
    /\ ret' = truthyHelp(raw)
    /\ thrown' = "none"
    /\ calls' = <<>>
    /\ UNCHANGED <<fixed, desciprion, version, helpText, versionArg>>

\* setDescription(description)
setDescription(description) ==
    /\ op.name # "declared"
    /\ op' = Called("setDescription", description)
    /\ desciprion' = Str(description)
    /\ ret' = Undefined
    /\ thrown' = "none"
    /\ calls' = <<>>
    /\ helpText' = NoText
    /\ UNCHANGED <<fixed, version, versionArg>>

\* setVersion(version)
setVersion(text) ==
    /\ op.name # "declared"
    /\ op' = Called("setVersion", text)
    /\ version' = Str(replaceVersion(text))
    /\ versionArg' = Str(text)
    /\ ret' = Undefined
    /\ thrown' = "none"
    /\ calls' = <<>>
    /\ helpText' = NoText
    /\ UNCHANGED <<fixed, desciprion>>

\* getHelpMessage()
getHelpMessage ==
    /\ op.name # "declared"
    /\ op' = Called("getHelpMessage", <<>>)
    /\ helpText' = helpMessage(expectations, desciprion, version)
    /\ ret' = Undefined
    /\ thrown' = "none"
    /\ calls' = <<>>
    /\ UNCHANGED <<fixed, desciprion, version, versionArg>>

\* triggerHelpException(): throws HelpException(this.getHelpMessage())
triggerHelpException ==
    /\ op.name # "declared"
    /\ op' = Called("triggerHelpException", <<>>)
    /\ helpText' = helpMessage(expectations, desciprion, version)
    /\ ret' = Undefined
    /\ thrown' = "HelpException"
    /\ calls' = <<>>
    /\ UNCHANGED <<fixed, desciprion, version, versionArg>>

\* Arguments.createValueException(message)
createValueException(message) ==
    /\ op.name # "declared"
    /\ op' = Called("createValueException", message)
    /\ ret' = [t |-> "ValueException", v |-> message]
    /\ thrown' = "none"
    /\ calls' = <<>>
    /\ UNCHANGED <<fixed, desciprion, version, helpText, versionArg>>

\* constructor(...expectations), the registry part: used where the
\* specification starts from the declarations
construct ==
    /\ op.name = "declared"
    /\ op' = Called("new", <<>>)
    /\ expectations' = createExpectations(decls)
    /\ built' = [expectations |-> createExpectations(decls), raw |-> raw]
    /\ UNCHANGED <<decls, raw, desciprion, version, ret, thrown, calls, helpText,
                   versionArg>>

-----------------------------------------------------------------------------
(* Inputs.                                                                 *)

NameA == <<"a">>

NameB == <<"b">>

NameC == <<"c">>

NameZ == <<"z">>

Decl(name, default, description, convertor) ==
    [name |-> name, default |-> default, description |-> description,
     convertor |-> convertor]

\* declared defaults: none, null, falsy values, a number
Defaults ==
    {Undefined, Null, Zero, Bool(FALSE), Str(<<>>), Num(<<"3", "0", "0", "0">>)}

\* "a,b" with every default and convertor
RichDecls ==
    {Decl(StringName(<<"a", ",", "b">>), d, Undefined, c) :
        d \in Defaults, c \in {"undefined", "Number"}}

\* ["c", "a"] shares an alias with "a,b"; "b ,c" has white space before its comma
OtherDecls ==
    {Decl(ArrayName(<<NameC, NameA>>), Str(<<"x">>), Str(<<"d">>), "undefined"),
     Decl(StringName(<<"b", " ", ",", "c">>), Num(<<"7">>), Undefined, "Number")}

RECURSIVE SeqsOver(_, _)
SeqsOver(S, n) ==
    IF n = 0 THEN {<<>>}
    ELSE LET shorter == SeqsOver(S, n - 1) IN
         shorter \cup {Append(q, x) : q \in {r \in shorter : Len(r) = n - 1}, x \in S}

\* declaration lists of 1..MaxDecls declarations
DeclLists ==
    {<<first>> \o rest :
        first \in RichDecls \cup OtherDecls, rest \in SeqsOver(OtherDecls, MaxDecls - 1)}

RawKeys == {NameA, NameB, NameC, HelpName}

NoFlags == [k \in RawKeys |-> Undefined]

\* what the flag parser yields: strings, booleans and numbers
RawMaps ==
    {[NoFlags EXCEPT ![NameA] = x, ![NameB] = y] :
        x \in {Undefined, Bool(FALSE), Zero, Str(<<>>), Str(<<"8", "0", "8", "0">>)},
        y \in {Undefined, Str(<<"9">>)}}
    \cup {[NoFlags EXCEPT ![HelpName] = h] :
            h \in {Bool(FALSE), Zero, Str(<<>>), Bool(TRUE), One, Str(<<"x">>)}}
    \cup {[NoFlags EXCEPT ![NameC] = Bool(TRUE)]}

QueryNames == {NameA, NameB, NameC, NameZ, <<>>}

RawQueries == {<<NameA, NameB>>, <<NameB, NameA>>, <<HelpName>>, <<>>}

Constructed(ds, flags) ==
    /\ decls = ds
    /\ expectations = createExpectations(ds)
    /\ raw = flags
    /\ built = [expectations |-> createExpectations(ds), raw |-> flags]
    /\ desciprion = Null
    /\ version = Null
    /\ op = Called("new", <<>>)
    /\ ret = Undefined
    /\ thrown = "none"
    /\ calls = <<>>
    /\ helpText = NoText
    /\ versionArg = Null

-----------------------------------------------------------------------------
(* The engine after construction, every operation callable in any order.   *)

Init == \E ds \in DeclLists, flags \in RawMaps : Constructed(ds, flags)

Next ==
    \/ \E name \in QueryNames : get(name)
    \/ \E names \in RawQueries : getRaw(names)
    \/ shouldHelp
    \/ \E text \in {<<"D">>} : setDescription(text)
    \/ \E text \in {<<"v", "1">>} : setVersion(text)
    \/ getHelpMessage
    \/ triggerHelpException
    \/ \E message \in {<<"m">>} : createValueException(message)

Spec == Init /\ [][Next]_vars

-----------------------------------------------------------------------------
(* Vocabulary of the properties, stated from the declarations and the raw  *)
(* flag map without the engine's own lookups.                              *)

\* expectation i lists name among its canonical names
Lists(i, name) ==
    \E k \in 1..Len(expectations[i].names) : expectations[i].names[k] = name

IsAlias(name) == \E i \in 1..Len(expectations) : Lists(i, name)

\* the first expectation, in registry order, that lists name
FirstListing(name) ==
    CHOOSE i \in 1..Len(expectations) :
        Lists(i, name) /\ \A j \in 1..(i - 1) : ~Lists(j, name)

\* the value get must hand to the convertor of expectation i: the raw value
\* of its first present alias, else the declared default, else absent (null)
Selected(i) ==
    LET ns == expectations[i].names
        present == {k \in 1..Len(ns) : ns[k] \in RawKeys /\ raw[ns[k]] # Undefined}
        given == decls[i].default
    IN  IF present # {}
        THEN raw[ns[CHOOSE k \in present : \A m \in present : k <= m]]
        ELSE IF given \notin {Undefined, Null} THEN given
        ELSE Null

DeclaredConvertor(i) ==
    IF decls[i].convertor = "undefined" THEN "identity" ELSE decls[i].convertor

\* get answered with expectation i: one convertor call on Selected(i), whose
\* result is returned
AnsweredBy(i) ==
    /\ thrown = "none"
    /\ calls = <<[convertor |-> DeclaredConvertor(i), arg |-> Selected(i)]>>
    /\ ret = Apply(DeclaredConvertor(i), Selected(i))

-----------------------------------------------------------------------------
(* C1: precedence of get.                                                  *)

\* C1 as stated: get(name), name a (non-empty) alias of ANY expectation E that
\* lists it, answers with E's convertor applied once to E's selected value.
C1_AnyListingExpectation ==
    op.name = "get" =>
        \A i \in 1..Len(expectations) :
            (op.arg # <<>> /\ Lists(i, op.arg)) => AnsweredBy(i)

\* C1 (amended): get(name), name a non-empty alias, answers with the FIRST
\* expectation E in registry order that lists name: E's convertor is applied
\* exactly once, to the raw value of the first alias of E (in E's declared
\* order) that is present (not undefined, falsy or not), else to E's declared
\* default, else to the absent value; its result is returned.
C1_Precedence ==
    (op.name = "get" /\ op.arg # <<>> /\ IsAlias(op.arg)) =>
        AnsweredBy(FirstListing(op.arg))

\* get("b") on names [a, b] with a falsy raw value under a and a value under b:
\* a's value wins over the queried name and over the default
C1_Witness ==
    /\ op = Called("get", NameB)
    /\ expectations[1].names = <<NameA, NameB>>
    /\ raw[NameA] = Zero
    /\ raw[NameB] = Str(<<"9">>)
    /\ decls[1].default = Num(<<"3", "0", "0", "0">>)
    /\ ret = Zero

-----------------------------------------------------------------------------
(* C2: alias equivalence.                                                  *)

\* C2 as stated: in any registry, for every expectation E and every (non-empty)
\* alias a of E, get(primary alias of E) and get(a) both resolve to E.
C2_AnyRegistry ==
    \A i \in 1..Len(expectations) :
        \A k \in 1..Len(expectations[i].names) :
            LET a == expectations[i].names[k]
                primary == expectations[i].names[1]
            IN  (a # <<>> /\ primary # <<>>) =>
                    /\ findExpectation(expectations, primary) = i
                    /\ findExpectation(expectations, a) = i

\* C2 (amended): for every expectation E and every non-empty alias a of E,
\* get(a) succeeds and resolves to the first expectation in registry order
\* that lists a; that is E itself, for the primary alias and for every other
\* alias alike, whenever no earlier expectation lists the name (so whenever
\* aliases are unique across the registry).
C2_AliasEquivalence ==
    /\ \A i \in 1..Len(expectations) :
         \A k \in 1..Len(expectations[i].names) :
            LET a == expectations[i].names[k] IN
            a # <<>> =>
                /\ findExpectation(expectations, a) = FirstListing(a)
                /\ (\A j \in 1..(i - 1) : ~Lists(j, a)) =>
                        findExpectation(expectations, a) = i
    /\ (op.name = "get" /\ op.arg # <<>> /\ IsAlias(op.arg)) => thrown = "none"

\* a registry of two expectations of two aliases each, queried by the second
\* alias of the second one
C2_Witness ==
    /\ Len(expectations) = 2
    /\ expectations[1].names = <<NameA, NameB>>
    /\ expectations[2].names = <<NameC, NameA>>
    /\ op = Called("get", NameC)
    /\ thrown = "none"
    /\ ret = Str(<<"x">>)

-----------------------------------------------------------------------------
(* C4: defaults.                                                           *)

\* C4 as stated: only undefined becomes absent; every other declared default
\* is kept and is not absent.
C4_OnlyUndefinedIsAbsent ==
    \A i \in 1..Len(expectations) :
        /\ decls[i].default = Undefined => expectations[i].default = Null
        /\ decls[i].default # Undefined =>
               /\ expectations[i].default = decls[i].default
               /\ expectations[i].default # Null

\* C4 (amended): the normalizer maps a declared default of undefined or null
\* to the absent state and keeps every other declared default (0, false and
\* "" included) as it is and not absent; when no alias is present in the raw
\* flag map, get(name) returns convertor(default) for every such default.
C4_Defaults ==
    /\ \A i \in 1..Len(expectations) :
         IF decls[i].default \in {Undefined, Null}
         THEN expectations[i].default = Null
         ELSE /\ expectations[i].default = decls[i].default
              /\ expectations[i].default # Null
    /\ (op.name = "get" /\ op.arg # <<>> /\ IsAlias(op.arg)) =>
         LET i == FirstListing(op.arg)
             ns == expectations[i].names
         IN  (/\ \A k \in 1..Len(ns) : rawAt(raw, ns[k]) = Undefined
              /\ decls[i].default \notin {Undefined, Null}) =>
                 /\ calls = <<[convertor |-> DeclaredConvertor(i),
                               arg |-> decls[i].default]>>
                 /\ ret = Apply(DeclaredConvertor(i), decls[i].default)

\* a default of the empty string, no raw value: get returns convertor("")
C4_Witness ==
    /\ op = Called("get", NameA)
    /\ decls[1].default = Str(<<>>)
    /\ decls[1].convertor = "Number"
    /\ raw[NameA] = Undefined /\ raw[NameB] = Undefined
    /\ calls = <<[convertor |-> "Number", arg |-> Str(<<>>)]>>
    /\ ret = Zero

-----------------------------------------------------------------------------
(* C5: get of an undeclared name.                                          *)

\* C5: get(name), name no alias of any expectation, throws the generic Error,
\* which is neither a ValueException nor a HelpException and for which
\* isArgumentException is false; no convertor runs; the registry, the raw
\* flag map and the session metadata stay as they were.
C5_UndeclaredName ==
    [][(op'.name = "get" /\ ~IsAlias(op'.arg)) =>
          /\ thrown' = "Error"
          /\ thrown' \notin {"ValueException", "HelpException"}
          /\ ~isArgumentException(thrown')
          /\ calls' = <<>>
          /\ UNCHANGED <<expectations, raw, desciprion, version>>]_vars

\* get("z") after the metadata was set
C5_Witness ==
    /\ op = Called("get", NameZ)
    /\ thrown = "Error"
    /\ desciprion # Null
    /\ version # Null

-----------------------------------------------------------------------------
(* C6: the registry and the raw flag map never change.                     *)

\* C6: after any sequence of operations the registry and the raw flag map are
\* those of construction; get and getRaw answer as they would have right
\* after construction, so repeated calls agree; a getHelpMessage with no
\* setter call since the previous one returns the same text.
C6_Immutable ==
    /\ [](/\ expectations = built.expectations
          /\ raw = built.raw
          /\ op.name = "get" =>
                LET o == getOutcome(built.expectations, built.raw, op.arg) IN
                ret = o.ret /\ thrown = o.thrown /\ calls = o.calls
          /\ op.name = "getRaw" => ret = rawLookup(built.raw, op.arg))
    /\ [][(op'.name = "getHelpMessage" /\ helpText # NoText) =>
             helpText' = helpText]_vars

\* a get that found a raw value, after setters and a rendered help text
C6_Witness ==
    /\ op = Called("get", NameA)
    /\ ret = Str(<<"8", "0", "8", "0">>)
    /\ helpText # NoText
    /\ desciprion # Null
    /\ version # Null

-----------------------------------------------------------------------------
(* C7: shouldHelp.                                                         *)

\* C7: shouldHelp() is true exactly when the raw flag map holds a truthy value
\* under help: false when help is absent, false, 0 or ""; whatever the
\* declarations and the session metadata.
C7_ShouldHelp ==
    op.name = "shouldHelp" =>
        /\ thrown = "none"
        /\ ret = Bool(raw[HelpName] \notin {Undefined, Bool(FALSE), Zero, Str(<<>>)})

\* help present but 0: shouldHelp() is false
C7_Witness ==
    /\ op.name = "shouldHelp"
    /\ raw[HelpName] = Zero
    /\ ret = Bool(FALSE)

-----------------------------------------------------------------------------
(* The normalizer alone: the declarations are given, construct normalizes  *)
(* them, get then looks the stored aliases up.                             *)

NameChars == {"a", "b", " ", ","}

\* every non-empty string of at most MaxNameLen characters, and arrays of one
\* or two strings (padded, blank, or holding a comma)
NameInputs ==
    {StringName(s) : s \in SeqsOver(NameChars, MaxNameLen) \ {<<>>}}
    \cup {ArrayName(items) :
            items \in SeqsOver({<<"a">>, <<" ", "b">>, <<"b", " ">>, <<" ">>,
                                <<"a", ",", "b">>}, 2) \ {<<>>}}

PlainDecl(n) == Decl(n, Undefined, Undefined, "undefined")

NormDeclLists ==
    LET c == PlainDecl(StringName(NameC)) IN
    UNION {{<<PlainDecl(n)>>, <<PlainDecl(n), c>>, <<c, PlainDecl(n)>>} :
              n \in NameInputs}

InitNorm ==
    \E ds \in NormDeclLists :
        /\ decls = ds
        /\ expectations = <<>>
        /\ raw = NoFlags
        /\ built = [expectations |-> <<>>, raw |-> NoFlags]
        /\ desciprion = Null
        /\ version = Null
        /\ op = Called("declared", <<>>)
        /\ ret = Undefined
        /\ thrown = "none"
        /\ calls = <<>>
        /\ helpText = NoText
        /\ versionArg = Null

NextNorm ==
    \/ construct
    \/ \E name \in {NameA, NameB, NameC, <<>>} : get(name)

SpecNorm == InitNorm /\ [][NextNorm]_vars

IsSeparatorChar(c) == IsSpace(c) \/ c = ","

\* the tokens of s: its maximal runs of characters that are neither white
\* space nor a comma, in order
RECURSIVE TokensFrom(_, _, _, _)
TokensFrom(s, q, current, acc) ==
    IF q > Len(s)
    THEN IF current = <<>> THEN acc ELSE Append(acc, current)
    ELSE IF IsSeparatorChar(s[q])
         THEN TokensFrom(s, q + 1, <<>>,
                         IF current = <<>> THEN acc ELSE Append(acc, current))
         ELSE TokensFrom(s, q + 1, Append(current, s[q]), acc)

Tokens(s) == TokensFrom(s, 1, <<>>, <<>>)

\* s is tokens separated by a run of white space, or by one comma with
\* optional white space on either side: it starts and ends with a token
\* character and no stretch of separator characters holds two commas
WellSeparated(s) ==
    /\ s # <<>>
    /\ ~IsSeparatorChar(s[1])
    /\ ~IsSeparatorChar(s[Len(s)])
    /\ \A i, j \in 1..Len(s) :
         (i < j /\ s[i] = "," /\ s[j] = ",") =>
            \E k \in (i + 1)..(j - 1) : ~IsSeparatorChar(s[k])

\* a name nobody would call malformed
WellFormedName(n) ==
    IF n.kind = "string"
    THEN WellSeparated(n.s)
    ELSE n.a # <<>> /\ \A k \in 1..Len(n.a) : Trim(n.a[k]) # <<>>

-----------------------------------------------------------------------------
(* C3: a separated string names the aliases its tokens name.               *)

\* C3: for a name given as one string of tokens separated by white space
\* and/or a comma with optional white space before it, after it or both, the
\* canonical alias list equals the one of the same declaration given as the
\* array of those tokens, in the same order.
C3_StringEqualsArray ==
    op.name # "declared" =>
        \A i \in 1..Len(decls) :
            (decls[i].name.kind = "string" /\ WellSeparated(decls[i].name.s)) =>
                /\ Len(expectations) = Len(decls)
                /\ expectations[i].names
                     = normalizeNames(ArrayName(Tokens(decls[i].name.s)))

-----------------------------------------------------------------------------
(* C10: the registry invariant.                                            *)

\* C10: for declarations whose name is a non-empty string or a non-empty
\* array of strings, the registry has the length and the order of the
\* declarations, and every stored alias is a trimmed, non-empty string, which
\* get finds again. Stated for the names that are beyond doubt well formed:
\* a well-separated string, an array without blank items.
C10_RegistryInvariant ==
    (op.name # "declared" /\ \A i \in 1..Len(decls) : WellFormedName(decls[i].name)) =>
        /\ Len(expectations) = Len(decls)
        /\ \A i \in 1..Len(expectations) :
             /\ decls[i].name = StringName(NameC) => expectations[i].names = <<NameC>>
             /\ \A k \in 1..Len(expectations[i].names) :
                  LET a == expectations[i].names[k] IN
                  /\ a # <<>>
                  /\ Trim(a) = a
                  /\ findExpectation(expectations, a) # 0

-----------------------------------------------------------------------------
(* setVersion on every short version text.                                 *)

VersionChars == {"v", "1", ".", "x"}

VersionTexts ==
    SeqsOver(VersionChars, MaxVersionLen)
    \cup {<<"v", "1", ".", "2", ".", "3">>,
          <<"r", "e", "l", "e", "a", "s", "e", "-", "2", ".", "0">>}

InitVersion ==
    Constructed(<<Decl(StringName(<<"a", ",", "b">>), Zero, Undefined, "undefined")>>,
                NoFlags)

NextVersion ==
    \/ \E text \in VersionTexts : setVersion(text)
    \/ getHelpMessage

SpecVersion == InitVersion /\ [][NextVersion]_vars

\* s without every "v" that a digit follows immediately
RECURSIVE WithoutVBeforeDigit(_, _)
WithoutVBeforeDigit(s, i) ==
    IF i > Len(s) THEN <<>>
    ELSE IF s[i] = "v" /\ i < Len(s) /\ s[i + 1] \in Digits
         THEN WithoutVBeforeDigit(s, i + 1)
         ELSE <<s[i]>> \o WithoutVBeforeDigit(s, i + 1)

LinesOfKind(text, kind) == SelectSeq(text, LAMBDA l : l.kind = kind)

-----------------------------------------------------------------------------
(* C9: setVersion.                                                         *)

\* C9: the stored version is the text of the last setVersion call with the
\* "v" in front of every dotted-numeric run removed and everything else left
\* as it was; the next getHelpMessage() shows the stored version in its
\* version line (an empty stored version has nothing to show: no line).
C9_SetVersion ==
    /\ versionArg = Null => version = Null
    /\ versionArg # Null =>
         /\ version = Str(WithoutVBeforeDigit(versionArg.v, 1))
         /\ op.name = "setVersion" => versionArg = Str(op.arg)
         /\ op.name = "getHelpMessage" =>
               IF version.v # <<>>
               THEN /\ Len(LinesOfKind(helpText, "version")) = 1
                    /\ LinesOfKind(helpText, "version")[1].text = version.v
               ELSE LinesOfKind(helpText, "version") = <<>>

\* "v1.2.3" was set, and the help text shows 1.2.3
C9_Witness ==
    /\ op.name = "getHelpMessage"
    /\ versionArg = Str(<<"v", "1", ".", "2", ".", "3">>)
    /\ version = Str(<<"1", ".", "2", ".", "3">>)
    /\ LinesOfKind(helpText, "version")[1].text = <<"1", ".", "2", ".", "3">>

-----------------------------------------------------------------------------
(* Help text of declarations with every short description.                 *)

DescChars == {"d", " ", NL}

Descriptions ==
    {Undefined} \cup {Str(s) : s \in SeqsOver(DescChars, MaxDescLen)}

HelpFirstDecls ==
    {Decl(StringName(<<"a", ",", "b">>), d, des, "undefined") :
        d \in {Undefined, Null, Zero, Str(<<"x">>)}, des \in Descriptions}

HelpOtherDecls ==
    {Decl(ArrayName(<<NameC>>), Bool(FALSE), Str(<<"d", NL, NL, "d">>), "undefined"),
     Decl(StringName(<<"b", " ", "c">>), Undefined, Undefined, "Number")}

HelpDeclLists ==
    {<<>>} \cup {<<first>> \o rest :
                    first \in HelpFirstDecls,
                    rest \in SeqsOver(HelpOtherDecls, MaxDecls - 1)}

InitHelp == \E ds \in HelpDeclLists : Constructed(ds, NoFlags)

NextHelp ==
    \/ \E text \in {<<"D">>, <<>>} : setDescription(text)
    \/ \E text \in {<<"v", "1">>} : setVersion(text)
    \/ getHelpMessage

SpecHelp == InitHelp /\ [][NextHelp]_vars

\* the position of the i-th header line of a text
HeaderAt(text, i) ==
    LET H == {p \in 1..Len(text) : text[p].kind = "header"} IN
    CHOOSE p \in H : Cardinality({q \in H : q < p}) = i - 1

HeaderCount(text) == Cardinality({p \in 1..Len(text) : text[p].kind = "header"})

\* the i-th block of a text: from its i-th header line to the line before the
\* next one, or to the end
BlockOf(text, i) ==
    SubSeq(text, HeaderAt(text, i),
           IF i < HeaderCount(text) THEN HeaderAt(text, i + 1) - 1 ELSE Len(text))

NewlineCount(s) == Cardinality({p \in 1..Len(s) : s[p] = NL})

\* declaration i has a description that is not blank
Described(i) ==
    decls[i].description.t = "string" /\ Trim(decls[i].description.v) # <<>>

\* the blocks of the help text, but for their default lines
BlocksRendered(hasDefault(_)) ==
    op.name = "getHelpMessage" =>
        /\ HeaderCount(helpText) = Len(decls)
        /\ \A i \in 1..Len(decls) :
             LET block == BlockOf(helpText, i)
                 shown == LinesOfKind(block, "description")
                 defaults == LinesOfKind(block, "default")
             IN  /\ block[1].names = normalizeNames(decls[i].name)
                 /\ Len(LinesOfKind(block, "header")) = 1
                 /\ IF Described(i)
                    THEN /\ Len(shown) = NewlineCount(Trim(decls[i].description.v)) + 1
                         /\ \A k \in 1..Len(shown) :
                              shown[k].text = SplitLines(Trim(decls[i].description.v))[k]
                    ELSE shown = <<>>
                 /\ IF hasDefault(i)
                    THEN /\ Len(defaults) = 1
                         /\ defaults[1].val = decls[i].default
                    ELSE defaults = <<>>

-----------------------------------------------------------------------------
(* C8: the blocks of the help text.                                        *)

\* C8 as stated: one block per expectation in registry order, its header
\* listing the aliases in declared order, its description lines one per line
\* of the description, and a default-value line if and only if the
\* expectation was declared with a default (any value but undefined).
C8_DefaultLineIffDeclared ==
    BlocksRendered(LAMBDA i : decls[i].default # Undefined)

\* C8 (amended): as stated, but the default-value line is there if and only if
\* the declared default is neither undefined nor null, and the description
\* lines are those of the trimmed description, there if and only if it is
\* not blank.
C8_HelpBlocks ==
    BlocksRendered(LAMBDA i : decls[i].default \notin {Undefined, Null})

\* two blocks; the first has a two-line description and the default 0
C8_Witness ==
    /\ op.name = "getHelpMessage"
    /\ Len(decls) = 2
    /\ decls[1].description = Str(<<"d", NL, "d">>)
    /\ decls[1].default = Zero
    /\ HeaderCount(helpText) = 2
    /\ Len(LinesOfKind(BlockOf(helpText, 1), "description")) = 2
    /\ Len(LinesOfKind(BlockOf(helpText, 1), "default")) = 1
    /\ desciprion # Null

====
